---- MODULE Spec2Model ----
(***************************************************************************)
(* s3fs: an io/fs filesystem view over an S3 bucket (src/s3fs.go).         *)
(*                                                                         *)
(* Strings are sequences of one-character strings, so that prefixes,       *)
(* suffixes and byte order are computed and not assumed.  The bucket is a  *)
(* set of keys; a listing is answered from the bucket as S3 answers a      *)
(* delimited ListObjectsV2 request, page by page.  Open is a sequence of   *)
(* steps, one per store round trip, so that writers of the bucket can      *)
(* interleave with it.                                                     *)
(***************************************************************************)
EXTENDS Integers, Sequences, FiniteSets, TLC

VARIABLES
    store,      \* the keys of the objects in the bucket
    pc,         \* where the one Open is: idle, resolve, getobj, dirlist, done
    arg,        \* the name Open was called with
    name,       \* the name after trimName
    prefix,     \* the prefix of the listing in progress
    token,      \* its continuation token: <<>> or <<last item returned>>
    fileMatch,  \* Open's fileMatch
    dirMatch,   \* Open's dirMatch
    entries,    \* openDir's entries so far
    result,     \* what Open returned
    d,          \* the s3Directory returned, if any
    calls,      \* the ReadDir calls made on d: count, cursor before, entries, error
    listed,     \* the pages the resolution listing returned
    mutations,  \* writes of other clients during the Open
    f,          \* the s3File returned, if any, and the Close calls its body got
    last,       \* the last Stat, Read or Close on the handle and what it returned
    getCalls,   \* the GetObject calls Open has made
    listCalls   \* the ListObjectsV2Pages calls Open has made

vars == <<store, pc, arg, name, prefix, token, fileMatch, dirMatch, entries,
          result, d, calls, listed, mutations, f, last, getCalls, listCalls>>

-----------------------------------------------------------------------------
(* Bounds *)

\* most objects in the bucket when Open is called
MaxStore == 3
\* most items (keys and common prefixes together) in one listing page
MaxPage == 2
\* most writes of other clients to the bucket during one Open
MaxMutations == 1
\* most ReadDir calls on one directory handle
MaxCalls == 3
\* largest count passed to ReadDir
MaxN == 2
\* most Close calls on one file handle
MaxCloses == 2

-----------------------------------------------------------------------------
(* Strings *)

Slash == "/"

\* byte values of the characters used
Ord(c) == CASE c = "." -> 46 [] c = "/" -> 47 [] c = "a" -> 97 [] c = "b" -> 98

HasPrefix(s, p) == Len(p) <= Len(s) /\ SubSeq(s, 1, Len(p)) = p

HasSuffix(s, p) == Len(p) <= Len(s) /\ SubSeq(s, Len(s) - Len(p) + 1, Len(s)) = p

TrimPrefix(s, p) == IF HasPrefix(s, p) THEN SubSeq(s, Len(p) + 1, Len(s)) ELSE s

TrimSuffix(s, p) == IF HasSuffix(s, p) THEN SubSeq(s, 1, Len(s) - Len(p)) ELSE s

\* index of the first separator of s, 0 when there is none
IndexSlash(s) ==
    IF \E i \in 1..Len(s) : s[i] = Slash
    THEN CHOOSE i \in 1..Len(s) : s[i] = Slash /\ \A j \in 1..(i - 1) : s[j] # Slash
    ELSE 0

\* index of the last separator of s, 0 when there is none
LastSlash(s) ==
    IF \E i \in 1..Len(s) : s[i] = Slash
    THEN CHOOSE i \in 1..Len(s) : s[i] = Slash /\ \A j \in (i + 1)..Len(s) : s[j] # Slash
    ELSE 0

\* s without its trailing separators
RECURSIVE StripSlashes(_)
StripSlashes(s) ==
    IF Len(s) > 0 /\ s[Len(s)] = Slash THEN StripSlashes(SubSeq(s, 1, Len(s) - 1)) ELSE s

\* path.Base of the Go library: the last element of a path
Base(p) ==
    IF p = <<>> THEN <<".">>
    ELSE LET q == StripSlashes(p)
             r == SubSeq(q, LastSlash(q) + 1, Len(q))
         IN  IF r = <<>> THEN <<Slash>> ELSE r

\* byte order of strings, as S3 orders keys
RECURSIVE Less(_, _)
Less(s, t) ==
    IF t = <<>> THEN FALSE
    ELSE IF s = <<>> THEN TRUE
    ELSE IF s[1] # t[1] THEN Ord(s[1]) < Ord(t[1])
    ELSE Less(Tail(s), Tail(t))

-----------------------------------------------------------------------------
(* The names used *)

\* keys that objects of the bucket can have
Keys ==
    { <<"a">>, <<"a", "/">>, <<"a", "/", "a">>, <<"a", "/", "b">>,
      <<"a", "/", "b", "/", "a">>, <<"a", "b">>, <<".", ".">> }

\* names passed to Open
Names ==
    { <<".">>, <<"/">>, <<".", "/", ".">>, <<"a">>, <<"a", "/">>, <<".", "/", "a">>,
      <<"a", "b">>, <<"b">>, <<"a", "/", "b">>, <<"/", "a">>, <<".", ".">>,
      <<"a", "/", ".", ".">>, <<"a", "/", "/">>, <<".", "/", ".", "/", ".">> }

-----------------------------------------------------------------------------
(* trimName *)

\* trimName that lets "/" through
trimName_SlashPasses(raw) ==
    IF raw = <<".", "/", ".">> THEN [name |-> <<>>, err |-> TRUE]
    ELSE IF raw = <<".">> THEN [name |-> <<>>, err |-> FALSE]
    ELSE [name |-> TrimSuffix(TrimPrefix(raw, <<".", Slash>>), <<Slash>>), err |-> FALSE]

\* trimName that cuts the last character, separator or not
trimName_CutsLast(raw) ==
    IF raw = <<".", "/", ".">> \/ raw = <<Slash>> THEN [name |-> <<>>, err |-> TRUE]
    ELSE IF raw = <<".">> THEN [name |-> <<>>, err |-> FALSE]
    ELSE LET t == TrimPrefix(raw, <<".", Slash>>)
         IN  [name |-> SubSeq(t, 1, Len(t) - 1), err |-> FALSE]

trimName(raw) ==
    IF raw = <<".", "/", ".">> \/ raw = <<Slash>> THEN [name |-> <<>>, err |-> TRUE]
    ELSE IF raw = <<".">> THEN [name |-> <<>>, err |-> FALSE]
    ELSE [name |-> TrimSuffix(TrimPrefix(raw, <<".", Slash>>), <<Slash>>), err |-> FALSE]

-----------------------------------------------------------------------------
(* The delimited listing of the bucket *)

\* what the listing with prefix p and delimiter "/" shows for key k: the key
\* itself, or the common prefix that ends at the first separator after p
ItemOf(k, p) ==
    LET r == SubSeq(k, Len(p) + 1, Len(k))
        i == IndexSlash(r)
    IN  IF i = 0 THEN [cp |-> FALSE, s |-> k]
        ELSE [cp |-> TRUE, s |-> p \o SubSeq(r, 1, i)]

Items(st, p) == { ItemOf(k, p) : k \in { k \in st : HasPrefix(k, p) } }

\* the items a request with continuation token tok still has to return
After(st, p, tok) == { it \in Items(st, p) : tok = <<>> \/ Less(tok[1], it.s) }

RECURSIVE Sorted(_)
Sorted(S) ==
    IF S = {} THEN <<>>
    ELSE LET m == CHOOSE x \in S : \A y \in S \ {x} : Less(x.s, y.s)
         IN  <<m>> \o Sorted(S \ {m})

\* one page of at most sz items
Page(st, p, tok, sz) ==
    LET all == Sorted(After(st, p, tok))
    IN  SubSeq(all, 1, IF sz < Len(all) THEN sz ELSE Len(all))

IsCP(it) == it.cp
IsObj(it) == ~it.cp

\* page.Contents and page.CommonPrefixes
Contents(page) == SelectSeq(page, IsObj)
CommonPrefixes(page) == SelectSeq(page, IsCP)

\* the page is the last one of its listing
LastPage(st, p, tok, sz) == Len(Page(st, p, tok, sz)) = Cardinality(After(st, p, tok))

NextToken(page, tok) == IF page = <<>> THEN tok ELSE <<page[Len(page)].s>>

-----------------------------------------------------------------------------
(* Open: the resolution of a name *)

\* FileMatchIn by prefix in place of equality
FileMatchIn_Prefix(page, nm) ==
    \E i \in 1..Len(Contents(page)) : HasPrefix(Contents(page)[i].s, nm)

\* the page holds an object whose key is the name
FileMatchIn(page, nm) ==
    \E i \in 1..Len(Contents(page)) : Contents(page)[i].s = nm

\* the page holds the common prefix name + "/"
DirMatchIn(page, nm) ==
    \E i \in 1..Len(CommonPrefixes(page)) : nm \o <<Slash>> = CommonPrefixes(page)[i].s

\* Resolve without the check for both matches
Resolve_FileFirst(fm, dm) ==
    IF fm THEN "file"
    ELSE IF dm THEN "dir"
    ELSE "NotExist"

\* the branch Open takes once the resolution listing has returned
Resolve(fm, dm) ==
    IF fm /\ dm THEN "Ambiguous"
    ELSE IF fm THEN "file"
    ELSE IF dm THEN "dir"
    ELSE "NotExist"

\* the entries openDir appends for one page: the objects, then the common prefixes
PageEntries(page) ==
    [i \in 1..Len(Contents(page)) |-> [name |-> Base(Contents(page)[i].s), dir |-> FALSE]]
    \o
    [i \in 1..Len(CommonPrefixes(page)) |->
        [name |-> Base(CommonPrefixes(page)[i].s), dir |-> TRUE]]

NoResult == [kind |-> "none", err |-> "none"]
Failed(e) == [kind |-> "err", err |-> e]
Handle(k) == [kind |-> k, err |-> "nil"]

NoDir == [open |-> FALSE, entries |-> <<>>, ptr |-> 0, name |-> <<>>]

NoFile == [open |-> FALSE, name |-> <<>>, closes |-> 0]

NoLast == [op |-> "none", n |-> 0, err |-> "nil", was |-> NoDir]

InProgress == pc \in {"resolve", "getobj", "dirlist"}

Init ==
    /\ store \in { st \in SUBSET Keys : Cardinality(st) <= MaxStore }
    /\ pc = "idle"
    /\ arg = <<>>
    /\ name = <<>>
    /\ prefix = <<>>
    /\ token = <<>>
    /\ fileMatch = FALSE
    /\ dirMatch = FALSE
    /\ entries = <<>>
    /\ result = NoResult
    /\ d = NoDir
    /\ calls = <<>>
    /\ listed = <<>>
    /\ mutations = 0
    /\ f = NoFile
    /\ last = NoLast
    /\ getCalls = 0
    /\ listCalls = 0

\* Open up to the first store call: trimName and the special case of the root
Open(raw) ==
    /\ pc = "idle"
    /\ arg' = raw
    /\ LET t == trimName(raw)
       IN  IF t.err
           THEN /\ pc' = "done"
                /\ result' = Failed("InvalidName")
                /\ UNCHANGED <<name, prefix>>
           ELSE /\ name' = t.name
                /\ prefix' = t.name
                /\ pc' = IF t.name = <<>> THEN "dirlist" ELSE "resolve"
                /\ UNCHANGED result
    /\ UNCHANGED <<store, token, fileMatch, dirMatch, entries, d, calls, listed, mutations,
                   f, last, getCalls, listCalls>>

\* ResolvePage that makes the directory from the pages of the resolution
\* listing, without the listing of openDir
ResolvePage_Reuses(sz) ==
    /\ pc = "resolve"
    /\ LET page == Page(store, prefix, token, sz)
           fm == fileMatch \/ FileMatchIn(page, name)
           dm == dirMatch \/ DirMatchIn(page, name)
           to == Resolve(fm, dm)
           es == entries \o PageEntries(page)
       IN  /\ fileMatch' = fm
           /\ dirMatch' = dm
           /\ listed' = Append(listed, page)
           /\ entries' = es
           /\ IF ~LastPage(store, prefix, token, sz)
              THEN /\ token' = NextToken(page, token)
                   /\ UNCHANGED <<pc, prefix, result, d>>
              ELSE /\ token' = <<>>
                   /\ CASE to = "file" -> /\ pc' = "getobj"
                                          /\ UNCHANGED <<prefix, result, d>>
                        [] to = "dir" -> /\ pc' = "done"
                                         /\ prefix' = name \o <<Slash>>
                                         /\ result' = Handle("dir")
                                         /\ d' = [open |-> TRUE, entries |-> es, ptr |-> 0,
                                                  name |-> Base(name)]
                        [] OTHER -> /\ pc' = "done"
                                    /\ result' = Failed(to)
                                    /\ UNCHANGED <<prefix, d>>
    /\ listCalls' = IF token = <<>> THEN listCalls + 1 ELSE listCalls
    /\ UNCHANGED <<store, arg, name, calls, mutations, f, last, getCalls>>

\* one page of the resolution listing and its callback; after the last page,
\* the branch on fileMatch and dirMatch
ResolvePage(sz) ==
    /\ pc = "resolve"
    /\ LET page == Page(store, prefix, token, sz)
           fm == fileMatch \/ FileMatchIn(page, name)
           dm == dirMatch \/ DirMatchIn(page, name)
           to == Resolve(fm, dm)
       IN  /\ fileMatch' = fm
           /\ dirMatch' = dm
           /\ listed' = Append(listed, page)
           /\ IF ~LastPage(store, prefix, token, sz)
              THEN /\ token' = NextToken(page, token)
                   /\ UNCHANGED <<pc, prefix, result>>
              ELSE /\ token' = <<>>
                   /\ CASE to = "file" -> /\ pc' = "getobj"
                                          /\ UNCHANGED <<prefix, result>>
                        [] to = "dir" -> /\ pc' = "dirlist"
                                         /\ prefix' = name \o <<Slash>>
                                         /\ UNCHANGED result
                        [] OTHER -> /\ pc' = "done"
                                    /\ result' = Failed(to)
                                    /\ UNCHANGED prefix
    /\ listCalls' = IF token = <<>> THEN listCalls + 1 ELSE listCalls
    /\ UNCHANGED <<store, arg, name, entries, d, calls, mutations, f, last, getCalls>>

\* the resolution listing fails in transport
ResolveFail ==
    /\ pc = "resolve"
    /\ pc' = "done"
    /\ result' = Failed("ListError")
    /\ listCalls' = IF token = <<>> THEN listCalls + 1 ELSE listCalls
    /\ UNCHANGED <<store, arg, name, prefix, token, fileMatch, dirMatch, entries, d, calls,
                   listed, mutations, f, last, getCalls>>

\* the answer of the store to a get-object call for key k
GetObject(st, k, ok) ==
    IF ~ok THEN "Transport" ELSE IF k \in st THEN "Body" ELSE "NoSuchKey"

\* the error openFile returns for a failed get-object call: the store's error,
\* wrapped as "error getting s3 object"
GetError(cause) == "Get" \o cause

\* openFile: the get-object call for the resolved key
OpenFile(ok) ==
    /\ pc = "getobj"
    /\ pc' = "done"
    /\ LET got == GetObject(store, name, ok)
       IN  /\ result' = IF got = "Body" THEN Handle("file") ELSE Failed(GetError(got))
           /\ f' = IF got = "Body" THEN [open |-> TRUE, name |-> Base(name), closes |-> 0]
                    ELSE f
    /\ getCalls' = getCalls + 1
    /\ UNCHANGED <<store, arg, name, prefix, token, fileMatch, dirMatch, entries, d, calls,
                   listed, mutations, last, listCalls>>

\* openDir without its check for no entries
NoEntries_Never(es) == FALSE

\* openDir's check after the listing: the directory has no entries
NoEntries(es) == Len(es) = 0

\* openDir: one page of the listing under the directory's prefix and its
\* callback; after the last page, the check for no entries and the handle
DirPage(sz) ==
    /\ pc = "dirlist"
    /\ LET page == Page(store, prefix, token, sz)
           es == entries \o PageEntries(page)
       IN  IF ~LastPage(store, prefix, token, sz)
           THEN /\ token' = NextToken(page, token)
                /\ entries' = es
                /\ UNCHANGED <<pc, result, d>>
           ELSE /\ token' = <<>>
                /\ entries' = es
                /\ pc' = "done"
                /\ IF NoEntries(es)
                   THEN /\ result' = Failed("NotExist")
                        /\ UNCHANGED d
                   ELSE /\ result' = Handle("dir")
                        /\ d' = [open |-> TRUE, entries |-> es, ptr |-> 0, name |-> Base(prefix)]
    /\ listCalls' = IF token = <<>> THEN listCalls + 1 ELSE listCalls
    /\ UNCHANGED <<store, arg, name, prefix, fileMatch, dirMatch, calls, listed, mutations,
                   f, last, getCalls>>

\* the directory listing fails in transport
DirFail ==
    /\ pc = "dirlist"
    /\ pc' = "done"
    /\ result' = Failed("DirListError")
    /\ listCalls' = IF token = <<>> THEN listCalls + 1 ELSE listCalls
    /\ UNCHANGED <<store, arg, name, prefix, token, fileMatch, dirMatch, entries, d, calls,
                   listed, mutations, f, last, getCalls>>

-----------------------------------------------------------------------------
(* Other clients of the bucket, between the store calls of an Open *)

PutObject(k) ==
    /\ InProgress
    /\ mutations < MaxMutations
    /\ k \notin store
    /\ store' = store \cup {k}
    /\ mutations' = mutations + 1
    /\ UNCHANGED <<pc, arg, name, prefix, token, fileMatch, dirMatch, entries, result, d,
                   calls, listed, f, last, getCalls, listCalls>>

DeleteObject(k) ==
    /\ InProgress
    /\ mutations < MaxMutations
    /\ k \in store
    /\ store' = store \ {k}
    /\ mutations' = mutations + 1
    /\ UNCHANGED <<pc, arg, name, prefix, token, fileMatch, dirMatch, entries, result, d,
                   calls, listed, f, last, getCalls, listCalls>>

-----------------------------------------------------------------------------
(* The directory handle *)

Min(a, b) == IF a < b THEN a ELSE b

\* ReadDir with the target taken from the count alone
ReadDirOp_TargetFromZero(es, ptr, n) ==
    IF n <= 0
    THEN [out |-> SubSeq(es, ptr + 1, Len(es)), err |-> "nil",
          ptr |-> IF ptr < Len(es) THEN Len(es) ELSE ptr]
    ELSE LET target == IF n > Len(es) THEN Len(es) ELSE n
             out == SubSeq(es, ptr + 1, target)
         IN  IF Len(out) = 0
             THEN [out |-> <<>>, err |-> "EOF", ptr |-> IF ptr < target THEN target ELSE ptr]
             ELSE [out |-> out, err |-> "nil", ptr |-> IF ptr < target THEN target ELSE ptr]

\* ReadDir that signals the end on the call that reaches it
ReadDirOp_EOFAtEnd(es, ptr, n) ==
    IF n <= 0
    THEN [out |-> SubSeq(es, ptr + 1, Len(es)), err |-> "nil",
          ptr |-> IF ptr < Len(es) THEN Len(es) ELSE ptr]
    ELSE LET target == IF ptr + n > Len(es) THEN Len(es) ELSE ptr + n
             out == SubSeq(es, ptr + 1, target)
         IN  IF target = Len(es)
             THEN [out |-> out, err |-> "EOF", ptr |-> IF ptr < target THEN target ELSE ptr]
             ELSE [out |-> out, err |-> "nil", ptr |-> IF ptr < target THEN target ELSE ptr]

\* ReadDir without the check for an empty result
ReadDirOp_NoEOF(es, ptr, n) ==
    IF n <= 0
    THEN [out |-> SubSeq(es, ptr + 1, Len(es)), err |-> "nil",
          ptr |-> IF ptr < Len(es) THEN Len(es) ELSE ptr]
    ELSE LET target == IF ptr + n > Len(es) THEN Len(es) ELSE ptr + n
             out == SubSeq(es, ptr + 1, target)
         IN  [out |-> out, err |-> "nil", ptr |-> IF ptr < target THEN target ELSE ptr]

\* ReadDir that reads all only for a negative count
ReadDirOp_ZeroIsBounded(es, ptr, n) ==
    IF n < 0
    THEN [out |-> SubSeq(es, ptr + 1, Len(es)), err |-> "nil",
          ptr |-> IF ptr < Len(es) THEN Len(es) ELSE ptr]
    ELSE LET target == IF ptr + n > Len(es) THEN Len(es) ELSE ptr + n
             out == SubSeq(es, ptr + 1, target)
         IN  IF Len(out) = 0
             THEN [out |-> <<>>, err |-> "EOF", ptr |-> IF ptr < target THEN target ELSE ptr]
             ELSE [out |-> out, err |-> "nil", ptr |-> IF ptr < target THEN target ELSE ptr]

\* ReadDir that starts over once the end was signalled
ReadDirOp_Rewinds(es, ptr, n) ==
    IF n <= 0
    THEN [out |-> SubSeq(es, ptr + 1, Len(es)), err |-> "nil",
          ptr |-> IF ptr < Len(es) THEN Len(es) ELSE ptr]
    ELSE LET target == IF ptr + n > Len(es) THEN Len(es) ELSE ptr + n
             out == SubSeq(es, ptr + 1, target)
         IN  IF Len(out) = 0
             THEN [out |-> <<>>, err |-> "EOF", ptr |-> 0]
             ELSE [out |-> out, err |-> "nil", ptr |-> IF ptr < target THEN target ELSE ptr]

\* ReadDir on a directory with entries es and cursor ptr
ReadDirOp(es, ptr, n) ==
    IF n <= 0
    THEN [out |-> SubSeq(es, ptr + 1, Len(es)), err |-> "nil",
          ptr |-> IF ptr < Len(es) THEN Len(es) ELSE ptr]
    ELSE LET target == IF ptr + n > Len(es) THEN Len(es) ELSE ptr + n
             out == SubSeq(es, ptr + 1, target)
         IN  IF Len(out) = 0
             THEN [out |-> <<>>, err |-> "EOF", ptr |-> IF ptr < target THEN target ELSE ptr]
             ELSE [out |-> out, err |-> "nil", ptr |-> IF ptr < target THEN target ELSE ptr]

ReadDir(n) ==
    /\ pc = "done"
    /\ d.open
    /\ Len(calls) < MaxCalls
    /\ LET r == ReadDirOp(d.entries, d.ptr, n)
       IN  /\ d' = [d EXCEPT !.ptr = r.ptr]
           /\ calls' = Append(calls, [n |-> n, before |-> d.ptr, out |-> r.out, err |-> r.err])
    /\ last' = NoLast
    /\ UNCHANGED <<store, pc, arg, name, prefix, token, fileMatch, dirMatch, entries, result,
                   listed, mutations, f, getCalls, listCalls>>

\* what Stat, Read and Close leave alone: all but the handle and the last call
opened == <<store, pc, arg, name, prefix, token, fileMatch, dirMatch, entries, result,
            calls, listed, mutations, getCalls, listCalls>>

\* s3Directory.Stat
DirStat ==
    /\ pc = "done"
    /\ d.open
    /\ last' = [op |-> "Stat", n |-> 0, err |-> "nil", was |-> d]
    /\ UNCHANGED <<opened, d, f>>

\* Read on a directory that reads nothing and reports no error
DirRead_NoError ==
    /\ pc = "done"
    /\ d.open
    /\ last' = [op |-> "Read", n |-> 0, err |-> "nil", was |-> d]
    /\ UNCHANGED <<opened, d, f>>

\* s3Directory.Read
DirRead ==
    /\ pc = "done"
    /\ d.open
    /\ last' = [op |-> "Read", n |-> 0, err |-> "cannot read a directory", was |-> d]
    /\ UNCHANGED <<opened, d, f>>

\* s3Directory.Close
DirClose ==
    /\ pc = "done"
    /\ d.open
    /\ last' = [op |-> "Close", n |-> 0, err |-> "nil", was |-> d]
    /\ UNCHANGED <<opened, d, f>>

-----------------------------------------------------------------------------
(* The file handle *)

\* what Read on the body of the object can return after c Close calls: bytes,
\* the end of the stream, or the error of a closed body
BodyRead(c) ==
    IF c = 0 THEN { [n |-> 1, err |-> "nil"], [n |-> 0, err |-> "EOF"] }
    ELSE { [n |-> 0, err |-> "closed"] }

\* what Close on the body can return after c Close calls; io.Closer leaves
\* the behaviour of a Close after the first undefined
BodyClose(c) == IF c = 0 THEN {"nil"} ELSE {"nil", "closed"}

\* s3File.Stat
FileStat ==
    /\ pc = "done"
    /\ f.open
    /\ last' = [op |-> "Stat", n |-> 0, err |-> "nil", was |-> d]
    /\ UNCHANGED <<opened, d, f>>

\* s3File.Read
FileRead ==
    /\ pc = "done"
    /\ f.open
    /\ \E r \in BodyRead(f.closes) :
          last' = [op |-> "Read", n |-> r.n, err |-> r.err, was |-> d]
    /\ UNCHANGED <<opened, d, f>>

\* s3File.Close
FileClose ==
    /\ pc = "done"
    /\ f.open
    /\ f.closes < MaxCloses
    /\ \E e \in BodyClose(f.closes) :
          last' = [op |-> "Close", n |-> 0, err |-> e, was |-> d]
    /\ f' = [f EXCEPT !.closes = f.closes + 1]
    /\ UNCHANGED <<opened, d>>

-----------------------------------------------------------------------------

Next ==
    \/ \E raw \in Names : Open(raw)
    \/ \E sz \in 1..MaxPage : ResolvePage(sz)
    \/ ResolveFail
    \/ \E ok \in BOOLEAN : OpenFile(ok)
    \/ \E sz \in 1..MaxPage : DirPage(sz)
    \/ DirFail
    \/ \E k \in Keys : PutObject(k)
    \/ \E k \in Keys : DeleteObject(k)
    \/ \E n \in (-1)..MaxN : ReadDir(n)

Spec == Init /\ [][Next]_vars

\* Open on a bucket that no other client writes to, and every call on the
\* handle it returns
NextHandle ==
    \/ \E raw \in Names : Open(raw)
    \/ \E sz \in 1..MaxPage : ResolvePage(sz)
    \/ ResolveFail
    \/ \E ok \in BOOLEAN : OpenFile(ok)
    \/ \E sz \in 1..MaxPage : DirPage(sz)
    \/ DirFail
    \/ \E n \in (-1)..MaxN : ReadDir(n)
    \/ DirStat
    \/ DirRead
    \/ DirClose
    \/ FileStat
    \/ FileRead
    \/ FileClose

SpecHandle == Init /\ [][NextHandle]_vars

-----------------------------------------------------------------------------
(* What the claims speak of *)

\* Open has got the whole resolution listing from the store
Resolved == pc \in {"getobj", "dirlist", "done"} /\ name # <<>> /\ result.err # "ListError"

\* page i of the resolution listing held an object with key k
ListedKey(k, i) == \E j \in 1..Len(listed[i]) : listed[i][j] = [cp |-> FALSE, s |-> k]

\* page i of the resolution listing held the common prefix c
ListedCP(c, i) == \E j \in 1..Len(listed[i]) : listed[i][j] = [cp |-> TRUE, s |-> c]

Pages == 1..Len(listed)

\* C1: when the resolution listing of a name has returned both an object whose
\* key is the name and the common prefix name + "/", on the same page or on
\* different pages, Open fails with "directory name matches file name" and
\* returns no handle.
C1_AmbiguousPath ==
    (/\ Resolved
     /\ \E i \in Pages : ListedKey(name, i)
     /\ \E i \in Pages : ListedCP(name \o <<Slash>>, i))
    => (pc = "done" /\ result = Failed("Ambiguous") /\ ~d.open)

\* the two matches arrived on different pages and Open failed as ambiguous
C1_Witness ==
    /\ pc = "done"
    /\ result = Failed("Ambiguous")
    /\ \E i, j \in Pages : i # j /\ ListedKey(name, i) /\ ListedCP(name \o <<Slash>>, j)

\* the bucket, unchanged since Open was called, has neither an object with
\* key k nor an object under k + "/"
Absent(k) ==
    /\ mutations = 0
    /\ k \notin store
    /\ ~\E x \in store : HasPrefix(x, k \o <<Slash>>)

\* C7: Open of the root of an empty bucket returns a directory handle with no
\* entries, and no error.
C7_EmptyRootOpens ==
    (pc = "done" /\ arg = <<".">> /\ store = {} /\ mutations = 0
        /\ result.err # "DirListError")
    => (result = Handle("dir") /\ d.open /\ d.entries = <<>>)

\* C8: for a name other than the root, when the bucket has no object with
\* exactly that key and no common prefix name + "/", and the store answers
\* the listing, Open fails with fs.ErrNotExist and returns no handle, also
\* when other keys start with the name.
C8_NotFound ==
    (pc = "done" /\ name # <<>> /\ Absent(name) /\ result.err # "ListError")
    => (result = Failed("NotExist") /\ ~d.open)

\* the name is a proper prefix of a key of the bucket and Open did not find it
C8_Witness ==
    /\ pc = "done"
    /\ name = <<"a">>
    /\ arg = name
    /\ Absent(name)
    /\ <<"a", "b">> \in store
    /\ result = Failed("NotExist")

\* C9: when the bucket has an object whose key ends with the separator (and,
\* as in TestS3FS_FileEndingWithSlash, no other object) and the store answers
\* the listings, Open of that key fails with the invalid name error and
\* returns no handle.
C9_TrailingSlashKeyInvalid ==
    (pc = "done" /\ store = {arg} /\ mutations = 0 /\ HasSuffix(arg, <<Slash>>)
        /\ result.err \notin {"ListError", "DirListError"})
    => (result = Failed("InvalidName") /\ ~d.open)

\* C10: when Open has resolved the name as a file and the object is gone by
\* the time of the get-object call, Open fails with fs.ErrNotExist.
C10_RaceIsNotFound ==
    (pc = "done" /\ Resolved /\ Resolve(fileMatch, dirMatch) = "file"
        /\ name \notin store /\ result.err # GetError("Transport"))
    => result = Failed("NotExist")

-----------------------------------------------------------------------------
(* ReadDir *)

Calls == 1..Len(calls)

\* the cursor after call i
CursorAfter(i) == IF i < Len(calls) THEN calls[i + 1].before ELSE d.ptr

\* the entries not yet returned before call i
Remaining(i) == Len(d.entries) - calls[i].before

\* C3: two successive ReadDir calls with positive counts n and m, the first
\* on a fresh reader, return between them the entries that one ReadDir(n + m)
\* returns on a fresh reader of the same directory: the first n + m entries,
\* or all of them when there are fewer, in the order of the directory.  The
\* same holds from any cursor the first call starts at.
C3_SplitInvariance ==
    \A i \in Calls :
        (i < Len(calls) /\ calls[i].n > 0 /\ calls[i + 1].n > 0)
        => calls[i].out \o calls[i + 1].out
             = SubSeq(d.entries, calls[i].before + 1,
                      Min(calls[i].before + calls[i].n + calls[i + 1].n, Len(d.entries)))

\* a fresh reader of three entries was read by ReadDir(2) and ReadDir(2)
C3_Witness ==
    /\ Len(d.entries) = 3
    /\ Len(calls) >= 2
    /\ calls[1].n = 2 /\ calls[2].n = 2
    /\ calls[1].before = 0
    /\ Len(calls[1].out) = 2 /\ Len(calls[2].out) = 1

\* call i returns the last of the entries not yet returned
Exhausts(i) == Remaining(i) > 0 /\ Len(calls[i].out) = Remaining(i)

\* C4 as claimed: in a sequence of ReadDir calls with positive counts, the
\* call that returns the last remaining entries signals the end of the
\* sequence, and no more than one call signals it.
C4_EOFOnExhaustingCall ==
    (\A i \in Calls : calls[i].n > 0)
    => /\ \A i \in Calls : Exhausts(i) => calls[i].err = "EOF"
       /\ Cardinality({ i \in Calls : calls[i].err = "EOF" }) <= 1

\* C4 as amended: in a sequence of ReadDir calls with positive counts, the
\* end of the sequence is signalled by every call made after all entries have
\* been returned and by no other call; the call that returns the last
\* remaining entries returns them without the signal.
C4_EOFAfterExhaustion ==
    (\A i \in Calls : calls[i].n > 0)
    => \A i \in Calls :
          calls[i].err = "EOF"
          <=> (\/ Len(d.entries) = 0
               \/ \E j \in 1..(i - 1) : Exhausts(j))

\* three entries read by ReadDir(2) three times: 2 entries, 1 entry, then the
\* end of the sequence
C4_Witness ==
    /\ Len(d.entries) = 3
    /\ Len(calls) = 3
    /\ \A i \in Calls : calls[i].n = 2
    /\ Len(calls[1].out) = 2 /\ calls[1].err = "nil"
    /\ Len(calls[2].out) = 1 /\ calls[2].err = "nil" /\ Exhausts(2)
    /\ Len(calls[3].out) = 0 /\ calls[3].err = "EOF"

\* C5: a ReadDir call with a positive count n returns io.EOF and no entries
\* exactly when the cursor was at the end before the call; otherwise it
\* returns no error and the min(n, remaining) >= 1 entries at the cursor, and
\* moves the cursor forward by the number of entries returned.
C5_PositiveRead ==
    \A i \in Calls :
        calls[i].n > 0 =>
            IF Remaining(i) = 0
            THEN calls[i].err = "EOF" /\ calls[i].out = <<>>
                 /\ CursorAfter(i) = calls[i].before
            ELSE /\ calls[i].err = "nil"
                 /\ Len(calls[i].out) = Min(calls[i].n, Remaining(i))
                 /\ Len(calls[i].out) >= 1
                 /\ calls[i].out
                      = SubSeq(d.entries, calls[i].before + 1,
                               calls[i].before + Len(calls[i].out))
                 /\ CursorAfter(i) = calls[i].before + Len(calls[i].out)

\* a call that asked for more than what remained, followed by a call at the end
C5_Witness ==
    \E i \in Calls :
        /\ i < Len(calls)
        /\ calls[i].n > Remaining(i) /\ Remaining(i) >= 1 /\ calls[i].before > 0
        /\ calls[i].err = "nil"
        /\ calls[i + 1].n > 0 /\ calls[i + 1].err = "EOF"

\* C6: a ReadDir call with a count of zero or less returns the entries from
\* the cursor to the end in order, leaves the cursor at the end and returns
\* no error, also when no entries remain.
C6_ReadAll ==
    \A i \in Calls :
        calls[i].n <= 0 =>
            /\ calls[i].out = SubSeq(d.entries, calls[i].before + 1, Len(d.entries))
            /\ calls[i].err = "nil"
            /\ CursorAfter(i) = Len(d.entries)

\* a read of the rest from the middle, then reads of all with counts 0 and -1
\* on the exhausted reader
C6_Witness ==
    /\ Len(calls) = 3
    /\ calls[1].n > 0 /\ calls[2].n = 0 /\ calls[3].n = -1
    /\ calls[2].before > 0 /\ Len(calls[2].out) > 0
    /\ calls[3].before = Len(d.entries)
    /\ calls[3].out = <<>> /\ calls[3].err = "nil"

-----------------------------------------------------------------------------
(* The entries of a directory *)

\* the part of key k below the directory with prefix p
Below(k, p) == SubSeq(k, Len(p) + 1, Len(k))

HasSlash(s) == \E i \in 1..Len(s) : s[i] = Slash

\* the first segment of s, which has a separator
FirstSegment(s) ==
    SubSeq(s, 1, (CHOOSE i \in 1..Len(s) : s[i] = Slash /\ \A j \in 1..(i - 1) : s[j] # Slash) - 1)

\* the immediate children of the directory with prefix p in bucket st: a file
\* for each key that has one more segment than p, a directory for each first
\* segment of the longer keys
Children(st, p) ==
    { [name |-> Below(k, p), dir |-> FALSE] :
        k \in { k \in st : HasPrefix(k, p) /\ Below(k, p) # <<>> /\ ~HasSlash(Below(k, p)) } }
    \cup
    { [name |-> FirstSegment(Below(k, p)), dir |-> TRUE] :
        k \in { k \in st : HasPrefix(k, p) /\ HasSlash(Below(k, p)) } }

\* C2: when the bucket does not change during Open, the entries of the
\* directory handle Open returns are the immediate children of the directory,
\* each exactly once, named by its last path segment and with its type, and
\* nothing else.
C2_EntriesAreChildren ==
    (pc = "done" /\ d.open /\ mutations = 0)
    => /\ { d.entries[i] : i \in 1..Len(d.entries) } = Children(store, prefix)
       /\ Len(d.entries) = Cardinality(Children(store, prefix))

\* C2 for buckets that have no key ending with the separator
C2_EntriesAreChildren_NoMarker ==
    (\A k \in store : ~HasSuffix(k, <<Slash>>)) => C2_EntriesAreChildren

-----------------------------------------------------------------------------
(* The file handle, and names that are no names *)

\* C11: Close on a file handle is idempotent: the body of the object is
\* closed no more than once, and a second or later Close returns no error.
C11_CloseIdempotent ==
    f.open =>
        /\ f.closes <= 1
        /\ (last.op = "Close" /\ f.closes >= 2) => last.err = "nil"

\* the names trimName rejects
Rejected == { <<Slash>>, <<".", Slash, ".">> }

\* C12: for "/" and "./." Open fails with the invalid name error and makes
\* no call to the store, neither a listing nor a get-object call.
C12_InvalidBeforeIO ==
    (pc # "idle" /\ arg \in Rejected)
    => /\ pc = "done"
       /\ result = Failed("InvalidName")
       /\ listCalls = 0 /\ getCalls = 0 /\ listed = <<>>
       /\ ~d.open /\ ~f.open

\* Open("/") has failed on a bucket that has objects
C12_Witness ==
    /\ pc = "done"
    /\ arg = <<Slash>>
    /\ store # {}
    /\ result = Failed("InvalidName")
    /\ listCalls = 0

\* Open got a name from trimName
Trimmed == pc # "idle" /\ result.err # "InvalidName"

\* C13 as claimed: for every name trimName accepts, trimName of the result
\* succeeds and returns the result unchanged.
C13_TrimIdempotent ==
    Trimmed => trimName(name) = [name |-> name, err |-> FALSE]

\* s has no leading "./", no trailing separator and is not "."
NormalForm(s) ==
    /\ ~HasPrefix(s, <<".", Slash>>)
    /\ ~HasSuffix(s, <<Slash>>)
    /\ s # <<".">>

\* C13 as amended: for every name trimName accepts and whose result has no
\* leading "./", no trailing separator and is not ".", trimName of the
\* result succeeds and returns the result unchanged.
C13_TrimIdempotentOnNormal ==
    (Trimmed /\ NormalForm(name)) => trimName(name) = [name |-> name, err |-> FALSE]

\* trimName stripped a name to a normal form, which it then leaves alone
C13_Witness ==
    /\ Trimmed
    /\ arg = <<".", Slash, "a">>
    /\ name = <<"a">>
    /\ trimName(name).name = name

\* s has a segment ".."
HasDotDot(s) ==
    \E i \in 1..(Len(s) - 1) :
        /\ s[i] = "." /\ s[i + 1] = "."
        /\ (i = 1 \/ s[i - 1] = Slash)
        /\ (i + 1 = Len(s) \/ s[i + 2] = Slash)

\* C14: Open of a name with a leading separator or with a segment ".."
\* returns an error and no handle, whatever the bucket holds.
C14_NoLeadingSlashNoDotDot ==
    (pc = "done" /\ (HasPrefix(arg, <<Slash>>) \/ HasDotDot(arg)))
    => (result.kind = "err" /\ ~d.open /\ ~f.open)

-----------------------------------------------------------------------------
(* The directory handle *)

\* C15: Read on a directory handle returns 0 and an error, wherever the
\* cursor is, and leaves the cursor and the entries as they were.
C15_DirReadFails ==
    (d.open /\ last.op = "Read")
    => /\ last.n = 0
       /\ last.err # "nil"
       /\ d.ptr = last.was.ptr
       /\ d.entries = last.was.entries

\* Read on a directory handle whose cursor is in the middle of the entries
C15_Witness ==
    /\ d.open
    /\ last.op = "Read"
    /\ d.ptr > 0 /\ d.ptr < Len(d.entries)
    /\ last.err = "cannot read a directory"

\* C16: the cursor of a directory handle stays between 0 and the number of
\* entries, no call on the handle (ReadDir, Read, Stat, Close) moves it back,
\* and no call changes the entries.
C16_CursorInvariant ==
    /\ [](d.open => (0 <= d.ptr /\ d.ptr <= Len(d.entries)))
    /\ [][d.open => (d'.ptr >= d.ptr /\ d'.entries = d.entries /\ d'.open)]_vars

\* a handle read to the end in two or more ReadDir calls, then closed
C16_Witness ==
    /\ d.open
    /\ Len(calls) >= 2
    /\ d.ptr = Len(d.entries)
    /\ calls[1].before < calls[2].before
    /\ last.op = "Close"

-----------------------------------------------------------------------------
(* The listings of an Open *)

\* Open has returned a directory handle for a name other than the root
DirOpened == pc = "done" /\ name # <<>> /\ result = Handle("dir")

\* C17 as claimed: Open of a name other than the root that resolves as a
\* directory makes one listing call.
C17_OneListing == DirOpened => listCalls = 1

\* C17 as amended: Open of a name other than the root that resolves as a
\* directory makes two listing calls, the resolution listing and the listing
\* of openDir, and no get-object call.
C17_TwoListings == DirOpened => (listCalls = 2 /\ getCalls = 0)

\* a directory opened after a resolution listing of two pages or more
C17_Witness == DirOpened /\ Len(listed) >= 2 /\ listCalls = 2

\* the resolution found a directory and the listing of openDir was answered
DirResolved ==
    /\ pc = "done"
    /\ Resolved
    /\ Resolve(fileMatch, dirMatch) = "dir"
    /\ result.err # "DirListError"

\* C18: when the resolution finds a directory and the listing under
\* name + "/" then returns no object and no common prefix, Open fails with
\* fs.ErrNotExist and returns no handle; and every directory handle returned
\* for a name other than the root has an entry.
C18_EmptyDirNotFound ==
    /\ (DirResolved /\ entries = <<>>) => (result = Failed("NotExist") /\ ~d.open)
    /\ (d.open /\ name # <<>>) => Len(d.entries) >= 1

\* the one object under the directory was deleted between the two listings
C18_Witness ==
    /\ DirResolved
    /\ mutations = 1
    /\ \A k \in store : ~HasPrefix(k, name \o <<Slash>>)
    /\ entries = <<>>
    /\ result = Failed("NotExist")

\* C19: in the entries of a directory handle the names are not empty, have no
\* separator and differ from one another, and every entry is a child of the
\* directory, none the directory itself.
C19_EntryNames ==
    (pc = "done" /\ d.open)
    => /\ \A i \in 1..Len(d.entries) :
            /\ d.entries[i].name # <<>>
            /\ ~HasSlash(d.entries[i].name)
            /\ mutations = 0 => d.entries[i] \in Children(store, prefix)
       /\ \A i, j \in 1..Len(d.entries) :
            i # j => d.entries[i].name # d.entries[j].name

====
